---- MODULE Spec2Model ----
(***************************************************************************)
(* knittingpattern.convert.InstructionToSVG: the mapping from instruction  *)
(* types to SVG templates, and the recoloring of the color layer.          *)
(*                                                                         *)
(* Every Python str is a sequence of one-character strings, so that        *)
(* str.split, str.startswith, str.join and str.replace are computed on     *)
(* characters.  An SVG text is its markup tree in document order with its  *)
(* comments and its XML declaration (XmlText), or text that is not         *)
(* well-formed XML (RawText).  Leaf strings hold no markup characters, so  *)
(* XML escaping leaves them as they are.                                   *)
(***************************************************************************)
EXTENDS Integers, Sequences, FiniteSets, TLC

VARIABLES
    store,       \* _instruction_type_to_file_content: type name -> file content
    loads,       \* the files loaded so far, in order: [path, content]
    op,          \* the method called last
    instr,       \* its instruction argument: [type, color]
    svg_string,  \* the text given to _set_fills_in_color_layer directly
    color_arg,   \* the color given to _set_fills_in_color_layer directly
    result,      \* what the last call returned or raised
    branch,      \* the branch instruction_to_svg took: "dedicated", "default"
    first        \* the result of the call before, when its output is fed back

vars == <<store, loads, op, instr, svg_string, color_arg, result, branch, first>>

(* ------------------------------ bounds -------------------------------- *)

\* Number of files the loader hands to _process_loaded_object in one run.
MaxLoads == 2

\* Number of child groups under the root of a generated document.
MaxGroups == 2

(* --------------------------- Python strings --------------------------- *)

\* The value None (of instruction.color); no str equals it.
None == <<"None">>

\* The empty str.
EmptyStr == << >>

\* str.startswith
StartsWith(s, prefix) ==
    /\ Len(s) >= Len(prefix)
    /\ SubSeq(s, 1, Len(prefix)) = prefix

\* str.find, 1-based; 0 when sub does not occur in s.
Find(s, sub) ==
    LET hits == {i \in 1..(Len(s) - Len(sub) + 1) :
                    SubSeq(s, i, i + Len(sub) - 1) = sub}
    IN  IF hits = {} THEN 0
        ELSE CHOOSE i \in hits : \A j \in hits : i <= j

\* str.split(sep)
RECURSIVE Split(_, _)
Split(s, sep) ==
    LET i == Find(s, sep)
    IN  IF i = 0 THEN <<s>>
        ELSE <<SubSeq(s, 1, i - 1)>>
                 \o Split(SubSeq(s, i + Len(sep), Len(s)), sep)

\* sep.join(parts)
RECURSIVE Join(_, _)
Join(sep, parts) ==
    IF Len(parts) = 0 THEN EmptyStr
    ELSE IF Len(parts) = 1 THEN parts[1]
    ELSE parts[1] \o sep \o Join(sep, Tail(parts))

\* str.replace(old, new): every non-overlapping occurrence, left to right.
RECURSIVE Replace(_, _, _)
Replace(s, old, new) ==
    LET i == Find(s, old)
    IN  IF i = 0 THEN s
        ELSE SubSeq(s, 1, i - 1) \o new
                 \o Replace(SubSeq(s, i + Len(old), Len(s)), old, new)

\* Concatenation of a sequence of sequences.
RECURSIVE Flatten(_)
Flatten(ss) ==
    IF Len(ss) = 0 THEN << >> ELSE ss[1] \o Flatten(Tail(ss))

(* ------------------------------ SVG text ------------------------------ *)

TextTag == <<"#","t","e","x","t">>
CommentTag == <<"#","c","o","m","m","e","n","t">>

\* Markup items: an element, a run of character data, a comment.
Elem(tag, attrs, items) ==
    [tag |-> tag, attrs |-> attrs, items |-> items, text |-> EmptyStr]
Chars(s) == [tag |-> TextTag, attrs |-> << >>, items |-> << >>, text |-> s]
Comment(s) == [tag |-> CommentTag, attrs |-> << >>, items |-> << >>, text |-> s]
Attr(name, value) == [name |-> name, value |-> value]

NoElem == Elem(EmptyStr, << >>, << >>)

\* A text that is well-formed XML: declaration or not, and the root element.
XmlText(decl, root) ==
    [kind |-> "xml", decl |-> decl, root |-> root, chars |-> EmptyStr]
\* A text that is not well-formed XML.
RawText(chars) ==
    [kind |-> "raw", decl |-> FALSE, root |-> NoElem, chars |-> chars]

\* The str "".
EmptyText == RawText(EmptyStr)

(* ----------------------- xmltodict's structures ----------------------- *)

\* What xmltodict.parse makes of an element: None, a str, a dict (entries in
\* insertion order), or, under a key that occurs several times, a list.
PyNone == [kind |-> "none", str |-> EmptyStr, entries |-> << >>, elems |-> << >>]
PyStr(s) == [kind |-> "str", str |-> s, entries |-> << >>, elems |-> << >>]
PyDict(entries) ==
    [kind |-> "dict", str |-> EmptyStr, entries |-> entries, elems |-> << >>]
PyList(elems) ==
    [kind |-> "list", str |-> EmptyStr, entries |-> << >>, elems |-> elems]
Entry(key, val) == [key |-> key, val |-> val]

\* key in d
HasKey(d, key) == \E i \in DOMAIN d.entries : d.entries[i].key = key

\* d[key], for a key of d
Get(d, key) ==
    d.entries[CHOOSE i \in DOMAIN d.entries : d.entries[i].key = key].val

\* d[key] = val, for a key of d: the entry keeps its place.
Put(d, key, val) ==
    PyDict([i \in DOMAIN d.entries |->
               IF d.entries[i].key = key THEN Entry(key, val)
               ELSE d.entries[i]])

\* The tags of the child elements of an element, in order of first occurrence.
RECURSIVE ChildTags(_)
ChildTags(items) ==
    IF Len(items) = 0 THEN << >>
    ELSE LET front == ChildTags(SubSeq(items, 1, Len(items) - 1))
             t == items[Len(items)].tag
         IN  IF \/ t \in {TextTag, CommentTag}
                \/ \E i \in DOMAIN front : front[i] = t
             THEN front
             ELSE Append(front, t)

\* xmltodict.parse of one element: attributes under "@name", children grouped
\* by tag (one child: its value, several: a list), character data joined under
\* "#text", comments dropped; no attribute and no child gives the character
\* data, or None when there is none.
RECURSIVE ParseElem(_)
ParseElem(node) ==
    LET IsText(it) == it.tag = TextTag
        data == Flatten([i \in DOMAIN SelectSeq(node.items, IsText) |->
                            SelectSeq(node.items, IsText)[i].text])
        tags == ChildTags(node.items)
        attrEntries == [i \in DOMAIN node.attrs |->
                           Entry(<<"@">> \o node.attrs[i].name,
                                 PyStr(node.attrs[i].value))]
        Group(t) ==
            LET HasTag(it) == it.tag = t
                same == SelectSeq(node.items, HasTag)
                vals == [i \in DOMAIN same |-> ParseElem(same[i])]
            IN  IF Len(vals) = 1 THEN vals[1] ELSE PyList(vals)
        childEntries == [i \in DOMAIN tags |-> Entry(tags[i], Group(tags[i]))]
        textEntries == IF data = EmptyStr THEN << >>
                       ELSE <<Entry(TextTag, PyStr(data))>>
    IN  IF Len(node.attrs) = 0 /\ Len(tags) = 0
        THEN IF data = EmptyStr THEN PyNone ELSE PyStr(data)
        ELSE PyDict(attrEntries \o childEntries \o textEntries)

\* xmltodict.parse of a well-formed text: a dict with the root's tag as its key.
parse(text) == PyDict(<<Entry(text.root.tag, ParseElem(text.root))>>)

\* xmltodict.unparse of the value under one key: attributes from the "@" keys,
\* the children in the dict's order, the "#text" after them.
RECURSIVE UnparseElem(_, _)
UnparseElem(tag, val) ==
    IF val.kind = "none" THEN Elem(tag, << >>, << >>)
    ELSE IF val.kind = "str" THEN Elem(tag, << >>, <<Chars(val.str)>>)
    ELSE
      LET IsAttr(e) == StartsWith(e.key, <<"@">>)
          IsCdata(e) == e.key = TextTag
          IsChild(e) == ~IsAttr(e) /\ ~IsCdata(e)
          as == SelectSeq(val.entries, IsAttr)
          cs == SelectSeq(val.entries, IsChild)
          ts == SelectSeq(val.entries, IsCdata)
          Emit(e) == IF e.val.kind = "list"
                     THEN [i \in DOMAIN e.val.elems |->
                              UnparseElem(e.key, e.val.elems[i])]
                     ELSE <<UnparseElem(e.key, e.val)>>
      IN  Elem(tag,
               [i \in DOMAIN as |->
                   Attr(SubSeq(as[i].key, 2, Len(as[i].key)), as[i].val.str)],
               Flatten([i \in DOMAIN cs |-> Emit(cs[i])])
                   \o [i \in DOMAIN ts |-> Chars(ts[i].val.str)])

\* xmltodict.unparse: the XML declaration, then the one root.
unparse(structure) ==
    XmlText(TRUE, UnparseElem(structure.entries[1].key, structure.entries[1].val))

(* --------------------- what a call gives its caller ------------------- *)

\* A returned str, a returned bool, a raised exception, or nothing yet.
\* parsed: whether xmltodict.parse was called on the way.
NoResult ==
    [kind |-> "none", text |-> EmptyText, flag |-> FALSE, err |-> "",
     parsed |-> FALSE]
Return(text, parsed) ==
    [kind |-> "text", text |-> text, flag |-> FALSE, err |-> "",
     parsed |-> parsed]
ReturnBool(b) ==
    [kind |-> "bool", text |-> EmptyText, flag |-> b, err |-> "",
     parsed |-> FALSE]
Raise(err) ==
    [kind |-> "error", text |-> EmptyText, flag |-> FALSE, err |-> err,
     parsed |-> TRUE]

\* The outcome of a loop body over a structure: the structure, or the error
\* that left the loop.
Done(val) == [err |-> "", val |-> val]
Failed(err) == [err |-> err, val |-> PyNone]

\* The outcomes of a loop's rounds as one: the first error, or the values.
FirstError(outs) ==
    LET bad == {i \in DOMAIN outs : outs[i].err # ""}
    IN  IF bad = {} THEN ""
        ELSE outs[CHOOSE i \in bad : \A j \in bad : i <= j].err

Values(outs) == [i \in DOMAIN outs |-> outs[i].val]

Collect(err, vals) == IF err # "" THEN Failed(err) ELSE Done(vals)

(* ------------------- _set_fills_in_color_layer ------------------------ *)

REPLACE_IN_DEFAULT_SVG == <<"{","i","n","s","t","r","u","c","t","i","o","n",".","t","y","p","e","}">>

\* ProcessPart with the colon of "fill:" forgotten.
ProcessPart_any_fill(e, color) ==
    IF StartsWith(e, <<"f","i","l","l">>) THEN <<"f","i","l","l",":">> \o color ELSE e

\* Lines 85-88, one part of the style: a part that starts with "fill:" becomes
\* "fill:" + color.
ProcessPart(e, color) ==
    IF StartsWith(e, <<"f","i","l","l",":">>) THEN <<"f","i","l","l",":">> \o color ELSE e

\* Lines 83-89: the style split at ";", every part processed, the parts joined
\* with ";".
ProcessParts(parts, color) ==
    Join(<<";">>, [i \in DOMAIN parts |-> ProcessPart(parts[i], color)])

\* ProcessStyle adding the fill to the style instead of replacing it.
ProcessStyle_appends(style, color) == style \o <<";","f","i","l","l",":">> \o color

ProcessStyle(style, color) == ProcessParts(Split(style, <<";">>), color)

\* Lines 79-90, one element of a color layer: element.get raises on None and on
\* a str; a style that is there and not empty is rewritten in place.
ProcessElement(element, color) ==
    IF element.kind # "dict" THEN Failed("AttributeError")
    ELSE IF HasKey(element, <<"@","s","t","y","l","e">>)
            /\ Get(element, <<"@","s","t","y","l","e">>).str # EmptyStr
    THEN Done(Put(element, <<"@","s","t","y","l","e">>,
                  PyStr(ProcessStyle(Get(element, <<"@","s","t","y","l","e">>).str, color))))
    ELSE Done(element)

\* Lines 76-78: the elements under one key, in order.
ProcessElements(elements, color) ==
    [i \in DOMAIN elements |-> ProcessElement(elements[i], color)]

CollectList(outs) == Collect(FirstError(outs), PyList(Values(outs)))

\* Lines 73-78, one item of a color layer: attributes and "#text" are passed
\* over, a value that is no list is taken as a list of one.
ProcessItem(entry, color) ==
    IF StartsWith(entry.key, <<"@">>) \/ StartsWith(entry.key, <<"#">>)
    THEN Done(entry.val)
    ELSE IF entry.val.kind = "list"
    THEN CollectList(ProcessElements(entry.val.elems, color))
    ELSE ProcessElement(entry.val, color)

\* Line 72: the group is the color layer.
IsColorLayer(layer) ==
    /\ HasKey(layer, <<"@","i","n","k","s","c","a","p","e",":","l","a","b","e","l">>)
    /\ Get(layer, <<"@","i","n","k","s","c","a","p","e",":","l","a","b","e","l">>).str = <<"c","o","l","o","r">>
    /\ HasKey(layer, <<"@","i","n","k","s","c","a","p","e",":","g","r","o","u","p","m","o","d","e">>)
    /\ Get(layer, <<"@","i","n","k","s","c","a","p","e",":","g","r","o","u","p","m","o","d","e">>).str = <<"l","a","y","e","r">>

CollectDict(d, outs) ==
    Collect(FirstError(outs),
            PyDict([i \in DOMAIN outs |-> Entry(d.entries[i].key, outs[i].val)]))

\* Lines 68-90, one group under the root: a group that is no dict, or is not
\* the color layer, stays as it is.
ProcessLayer(layer, color) ==
    IF layer.kind # "dict" THEN Done(layer)
    ELSE IF ~IsColorLayer(layer) THEN Done(layer)
    ELSE CollectDict(layer, [i \in DOMAIN layer.entries |->
                                ProcessItem(layer.entries[i], color)])

\* Lines 66-68: the layers in order, one layer taken as a list of one.
ProcessLayers(g, color) ==
    IF g.kind = "list"
    THEN CollectList([i \in DOMAIN g.elems |-> ProcessLayer(g.elems[i], color)])
    ELSE ProcessLayer(g, color)

\* The structure with the processed layers in it.
WithLayers(structure, svg, out) ==
    Collect(out.err, Put(structure, <<"s","v","g">>, Put(svg, <<"g">>, out.val)))

\* Line 65, structure["svg"]["g"]: a KeyError without the key, a TypeError
\* when structure["svg"] is None or a str.
ProcessSvg(structure, svg, color) ==
    IF svg.kind # "dict" THEN Failed("TypeError")
    ELSE IF ~HasKey(svg, <<"g">>) THEN Failed("KeyError")
    ELSE WithLayers(structure, svg, ProcessLayers(Get(svg, <<"g">>), color))

\* Lines 65-90 on the parsed structure.
ProcessStructure(structure, color) ==
    IF ~HasKey(structure, <<"s","v","g">>) THEN Failed("KeyError")
    ELSE ProcessSvg(structure, Get(structure, <<"s","v","g">>), color)

\* Line 91, or the exception on its way out.
Finish(out) ==
    IF out.err # "" THEN Raise(out.err) ELSE Return(unparse(out.val), TRUE)

\* _set_fills_in_color_layer without its first two lines: None is parsed too.
set_fills_always_parsing(text, color) ==
    IF text.kind # "xml" THEN Raise("ExpatError")
    ELSE IF color = None THEN Return(unparse(parse(text)), TRUE)
    ELSE Finish(ProcessStructure(parse(text), color))

\* _set_fills_in_color_layer(svg_string, color)
_set_fills_in_color_layer(text, color) ==
    IF color = None THEN Return(text, FALSE)
    ELSE IF text.kind # "xml" THEN Raise("ExpatError")
    ELSE Finish(ProcessStructure(parse(text), color))

(* ----------------------------- the store ------------------------------ *)

\* os.path.basename
basename(p) ==
    LET seps == {i \in DOMAIN p : p[i] = "/"}
    IN  IF seps = {} THEN p
        ELSE SubSeq(p, (CHOOSE i \in seps : \A j \in seps : j <= i) + 1, Len(p))

\* os.path.splitext(file_name)[0]: up to the last dot that has a character
\* other than a dot before it.
splitext_name(file_name) ==
    LET dots == {i \in DOMAIN file_name :
                    /\ file_name[i] = "."
                    /\ \E j \in 1..(i - 1) : file_name[j] # "."}
    IN  IF dots = {} THEN file_name
        ELSE SubSeq(file_name, 1,
                    (CHOOSE i \in dots : \A j \in dots : j <= i) - 1)

\* SetItem as dict.setdefault: the first file of a name stays.
SetItem_keeps_first(d, name, string) ==
    [k \in DOMAIN d \cup {name} |-> IF k \in DOMAIN d THEN d[k] ELSE string]

\* self._instruction_type_to_file_content[name] = string
SetItem(d, name, string) ==
    [k \in DOMAIN d \cup {name} |-> IF k = name THEN string ELSE d[k]]

\* _process_loaded_object(path), the file at path holding `string`.
_process_loaded_object(d, p, string) ==
    SetItem(d, splitext_name(basename(p)), string)

\* has_svg_for_instruction counting the default file as an image of every type.
has_svg_or_default(d, instruction) ==
    instruction.type \in DOMAIN d \/ <<"d","e","f","a","u","l","t">> \in DOMAIN d

\* has_svg_for_instruction
has_svg_for_instruction(d, instruction) == instruction.type \in DOMAIN d

\* str.replace on a whole text: on every string of its markup.
RECURSIVE ReplaceInElem(_, _, _)
ReplaceInElem(node, old, new) ==
    [tag |-> Replace(node.tag, old, new),
     attrs |-> [i \in DOMAIN node.attrs |->
                   Attr(Replace(node.attrs[i].name, old, new),
                        Replace(node.attrs[i].value, old, new))],
     items |-> [i \in DOMAIN node.items |->
                   ReplaceInElem(node.items[i], old, new)],
     text |-> Replace(node.text, old, new)]

ReplaceInText(text, old, new) ==
    IF text.kind = "xml"
    THEN XmlText(text.decl, ReplaceInElem(text.root, old, new))
    ELSE RawText(Replace(text.chars, old, new))

\* default_instruction_to_svg reading the store with get("default", ""): the
\* empty text goes on to the recoloring.
default_without_check(d, instruction) ==
    _set_fills_in_color_layer(
        IF <<"d","e","f","a","u","l","t">> \in DOMAIN d
        THEN ReplaceInText(d[<<"d","e","f","a","u","l","t">>], REPLACE_IN_DEFAULT_SVG, instruction.type)
        ELSE EmptyText,
        instruction.color)

\* The text of a result with `old` replaced, an exception as it is.
ReplaceInResult(res, old, new) ==
    IF res.kind = "text"
    THEN Return(ReplaceInText(res.text, old, new), res.parsed)
    ELSE res

\* default_instruction_to_svg recoloring first and replacing second.
default_recolor_first(d, instruction) ==
    IF <<"d","e","f","a","u","l","t">> \notin DOMAIN d THEN Return(EmptyText, FALSE)
    ELSE ReplaceInResult(
             _set_fills_in_color_layer(d[<<"d","e","f","a","u","l","t">>], instruction.color),
             REPLACE_IN_DEFAULT_SVG, instruction.type)

\* default_instruction_to_svg
default_instruction_to_svg(d, instruction) ==
    LET default_type == <<"d","e","f","a","u","l","t">>
        rep_str == REPLACE_IN_DEFAULT_SVG
    IN  IF default_type \notin DOMAIN d THEN Return(EmptyText, FALSE)
        ELSE LET default_svg == ReplaceInText(d[default_type], rep_str,
                                              instruction.type)
             IN  _set_fills_in_color_layer(default_svg, instruction.color)

\* instruction_to_svg
instruction_to_svg(d, instruction) ==
    IF instruction.type \in DOMAIN d
    THEN _set_fills_in_color_layer(d[instruction.type], instruction.color)
    ELSE default_instruction_to_svg(d, instruction)

(* ------------------------------ inputs -------------------------------- *)

Instruction(type, c) == [type |-> type, color |-> c]
NoInstruction == Instruction(EmptyStr, None)

Green == <<"#","0","f","0">>

InstructionTypes == {<<"k","n","i","t">>, <<"p","u","r","l">>, <<"d","e","f","a","u","l","t">>}
InstructionColors == {None, Green, REPLACE_IN_DEFAULT_SVG}
Instructions ==
    {Instruction(t, c) : t \in InstructionTypes, c \in InstructionColors}

Paths == {<<"a","/","k","n","i","t",".","s","v","g">>, <<"b","/","k","n","i","t",".","s","v","g">>, <<"d","e","f","a","u","l","t",".","s","v","g">>}

ColorLayerAttrs ==
    <<Attr(<<"i","n","k","s","c","a","p","e",":","l","a","b","e","l">>, <<"c","o","l","o","r">>), Attr(<<"i","n","k","s","c","a","p","e",":","g","r","o","u","p","m","o","d","e">>, <<"l","a","y","e","r">>)>>

Rect(style) == Elem(<<"r","e","c","t">>, <<Attr(<<"s","t","y","l","e">>, style)>>, << >>)

\* A template as an editor writes it: no declaration, a comment, the
\* placeholder in a comment, an attribute value and character data.
KnitSvg ==
    XmlText(FALSE,
        Elem(<<"s","v","g">>, << >>,
            <<Comment(<<"{","i","n","s","t","r","u","c","t","i","o","n",".","t","y","p","e","}">>),
              Elem(<<"g">>, ColorLayerAttrs,
                   <<Rect(<<"f","i","l","l",":","#","f","0","0",";","f","i","l","l","-","o","p","a","c","i","t","y",":","1">>)>>),
              Elem(<<"t","e","x","t">>, <<Attr(<<"i","d">>, <<"{","i","n","s","t","r","u","c","t","i","o","n",".","t","y","p","e","}">>)>>,
                   <<Chars(<<"{","i","n","s","t","r","u","c","t","i","o","n",".","t","y","p","e","}">>)>>)>>))

\* A template as xmltodict.unparse writes it.
PlainSvg ==
    XmlText(TRUE,
        Elem(<<"s","v","g">>, << >>,
            <<Elem(<<"g">>, ColorLayerAttrs, <<Rect(<<"s","t","r","o","k","e",":","#","0","0","0",";","f","i","l","l",":","#","0","0","f">>)>>)>>))

\* A template with no group under its root.
NoGroupSvg ==
    XmlText(TRUE,
        Elem(<<"s","v","g">>, << >>,
            <<Elem(<<"t","e","x","t">>, << >>, <<Chars(<<"{","i","n","s","t","r","u","c","t","i","o","n",".","t","y","p","e","}">>)>>)>>))

\* A file that is not XML.
BrokenSvg == RawText(<<"<","s","v","g",">","{","i","n","s","t","r","u","c","t","i","o","n",".","t","y","p","e","}">>)

FileContents == {KnitSvg, PlainSvg, NoGroupSvg, BrokenSvg}

\* The groups a generated document is made of.
GroupSamples ==
    { Elem(<<"g">>, ColorLayerAttrs, <<Rect(<<"f","i","l","l",":","#","f","0","0",";","f","i","l","l","-","o","p","a","c","i","t","y",":","1">>)>>),
      Elem(<<"g">>, ColorLayerAttrs,
           <<Rect(<<"f","i","l","l","-","r","u","l","e",":","n","o","n","z","e","r","o",";","f","i","l","l",":","#","f","0","0",";","f","i","l","l",":","#","0","0","f">>),
             Elem(<<"p","a","t","h">>, <<Attr(<<"d">>, <<"M","0">>), Attr(<<"s","t","y","l","e">>, <<"s","t","r","o","k","e",":","#","0","0","0">>)>>,
                  << >>),
             Rect(<< >>)>>),
      Elem(<<"g">>, <<Attr(<<"i","n","k","s","c","a","p","e",":","l","a","b","e","l">>, <<"c","o","l","o","r">>)>>, <<Rect(<<"f","i","l","l",":","#","f","0","0">>)>>),
      Elem(<<"g">>, <<Attr(<<"i","n","k","s","c","a","p","e",":","l","a","b","e","l">>, <<"k","n","i","t">>),
                   Attr(<<"i","n","k","s","c","a","p","e",":","g","r","o","u","p","m","o","d","e">>, <<"l","a","y","e","r">>)>>,
           <<Rect(<<"f","i","l","l",":","#","f","0","0">>)>>),
      Elem(<<"g">>, <<Attr(<<"i","n","k","s","c","a","p","e",":","g","r","o","u","p","m","o","d","e">>, <<"l","a","y","e","r">>)>>,
           <<Rect(<<"f","i","l","l",":","#","f","0","0">>)>>),
      Elem(<<"g">>, << >>, << >>),
      Elem(<<"g">>, << >>, <<Chars(<<"x">>)>>),
      Elem(<<"g">>, ColorLayerAttrs,
           <<Elem(<<"g">>, << >>, <<Rect(<<"f","i","l","l",":","#","f","0","0">>)>>)>>),
      Elem(<<"g">>, ColorLayerAttrs,
           <<Rect(<<"f","i","l","l",":","#","f","0","0">>), Elem(<<"r","e","c","t">>, << >>, << >>)>>),
      Elem(<<"g">>, ColorLayerAttrs,
           <<Elem(<<"t","i","t","l","e">>, << >>, <<Chars(<<"x">>)>>), Chars(<<"y">>)>>) }

\* All sequences over S of length at most n.
RECURSIVE SeqsUpTo(_, _)
SeqsUpTo(S, n) ==
    IF n = 0 THEN {<< >>}
    ELSE LET shorter == SeqsUpTo(S, n - 1)
         IN  shorter \cup {Append(q, x) : q \in shorter, x \in S}

\* The documents given to _set_fills_in_color_layer directly.
Documents ==
    {XmlText(TRUE, Elem(<<"s","v","g">>, << >>, gs)) : gs \in SeqsUpTo(GroupSamples, MaxGroups)}
        \cup FileContents
        \cup {XmlText(TRUE, Elem(<<"h","t","m","l">>, << >>, <<Elem(<<"g">>, << >>, << >>)>>))}

Colors == {None, Green, <<"a",";","b">>, EmptyStr}

(* ------------------------------ actions ------------------------------- *)

Init ==
    /\ store = << >>
    /\ loads = << >>
    /\ op = "init"
    /\ instr = NoInstruction
    /\ svg_string = EmptyText
    /\ color_arg = None
    /\ result = NoResult
    /\ branch = "none"
    /\ first = NoResult

\* load.path(p): the loader calls _process_loaded_object(p).
Load(p, string) ==
    /\ Len(loads) < MaxLoads
    /\ store' = _process_loaded_object(store, p, string)
    /\ loads' = Append(loads, [path |-> p, content |-> string])
    /\ op' = "load"
    /\ instr' = NoInstruction
    /\ result' = NoResult
    /\ branch' = "none"
    /\ UNCHANGED <<svg_string, color_arg, first>>

InstructionToSvg(instruction) ==
    /\ op' = "instruction_to_svg"
    /\ instr' = instruction
    /\ result' = instruction_to_svg(store, instruction)
    /\ branch' = IF instruction.type \in DOMAIN store THEN "dedicated"
                 ELSE "default"
    /\ UNCHANGED <<store, loads, svg_string, color_arg, first>>

DefaultInstructionToSvg(instruction) ==
    /\ op' = "default_instruction_to_svg"
    /\ instr' = instruction
    /\ result' = default_instruction_to_svg(store, instruction)
    /\ branch' = "default"
    /\ UNCHANGED <<store, loads, svg_string, color_arg, first>>

HasSvgForInstruction(instruction) ==
    /\ op' = "has_svg_for_instruction"
    /\ instr' = instruction
    /\ result' = ReturnBool(has_svg_for_instruction(store, instruction))
    /\ branch' = "none"
    /\ UNCHANGED <<store, loads, svg_string, color_arg, first>>

Next ==
    \/ \E p \in Paths, string \in FileContents : Load(p, string)
    \/ \E instruction \in Instructions : InstructionToSvg(instruction)
    \/ \E instruction \in Instructions : DefaultInstructionToSvg(instruction)
    \/ \E instruction \in Instructions : HasSvgForInstruction(instruction)

Spec == Init /\ [][Next]_vars

\* _set_fills_in_color_layer on its own, on every document and color.
InitRecolor ==
    /\ store = << >>
    /\ loads = << >>
    /\ op = "init"
    /\ instr = NoInstruction
    /\ svg_string \in Documents
    /\ color_arg \in Colors
    /\ result = NoResult
    /\ branch = "none"
    /\ first = NoResult

SetFills ==
    /\ op = "init"
    /\ op' = "set_fills"
    /\ result' = _set_fills_in_color_layer(svg_string, color_arg)
    /\ UNCHANGED <<store, loads, instr, svg_string, color_arg, branch, first>>

\* The text returned is given to _set_fills_in_color_layer once more.
SetFillsAgain ==
    /\ op = "set_fills"
    /\ result.kind = "text"
    /\ op' = "set_fills_again"
    /\ first' = result
    /\ result' = _set_fills_in_color_layer(result.text, color_arg)
    /\ UNCHANGED <<store, loads, instr, svg_string, color_arg, branch>>

NextRecolor == SetFills \/ SetFillsAgain

SpecRecolor == InitRecolor /\ [][NextRecolor]_vars

(* ------------------------- the store's claims ------------------------- *)

Renders == {"instruction_to_svg", "default_instruction_to_svg"}

\* The type name a loaded file is registered under.
NameOfLoad(i) == splitext_name(basename(loads[i].path))

\* The last file loaded under `name` so far.
LastLoad(name) ==
    CHOOSE i \in DOMAIN loads :
        /\ NameOfLoad(i) = name
        /\ \A j \in DOMAIN loads : NameOfLoad(j) = name => j <= i

\* The template the last rendering read: the type's own, else the default.
TemplateRead ==
    IF op = "instruction_to_svg" /\ instr.type \in DOMAIN store
    THEN store[instr.type]
    ELSE store[<<"d","e","f","a","u","l","t">>]

\* C1: instruction_to_svg and default_instruction_to_svg raise only when the
\* template text that is parsed is not well-formed XML; with a well-formed
\* template every soft miss (no template, no default, no group matching the
\* color layer, no group at all, a child without style, a style without fill)
\* gives a returned string.
C1_RaisesOnlyOnMalformedXml ==
    (op \in Renders /\ result.kind = "error")
        => /\ instr.type \in DOMAIN store \/ <<"d","e","f","a","u","l","t">> \in DOMAIN store
           /\ TemplateRead.kind # "xml"

\* C2: with color None, instruction_to_svg on a registered type returns the
\* stored content itself, well-formed or not, and nothing is parsed; and
\* _set_fills_in_color_layer(text, None) is text for every stored text.
C2_NoneColorReturnsContent ==
    /\ (op = "instruction_to_svg" /\ instr.color = None
            /\ instr.type \in DOMAIN store)
         => /\ result.kind = "text"
            /\ result.text = store[instr.type]
            /\ ~result.parsed
    /\ \A T \in DOMAIN store :
         LET r == _set_fills_in_color_layer(store[T], None)
         IN  r.kind = "text" /\ r.text = store[T] /\ ~r.parsed

\* C2's case: a registered file that is not XML, rendered with color None.
C2_Witness ==
    /\ op = "instruction_to_svg"
    /\ instr.color = None
    /\ instr.type \in DOMAIN store
    /\ store[instr.type] = BrokenSvg
    /\ result.kind = "text"

\* C6: with no entry for the instruction's type and none named "default",
\* instruction_to_svg and default_instruction_to_svg return the empty string,
\* whatever the color, and raise nothing.
C6_NoTemplateGivesEmptyString ==
    (op \in Renders /\ instr.type \notin DOMAIN store
         /\ <<"d","e","f","a","u","l","t">> \notin DOMAIN store)
        => result.kind = "text" /\ result.text = RawText(<< >>)

\* C6's case: a store with some file but neither the type's nor the default,
\* and a color that is not None.
C6_Witness ==
    /\ op = "instruction_to_svg"
    /\ instr.type \notin DOMAIN store
    /\ <<"d","e","f","a","u","l","t">> \notin DOMAIN store
    /\ DOMAIN store # {}
    /\ instr.color = Green
    /\ result.kind = "text"

\* Every occurrence of `old` in one string replaced: the pieces between the
\* occurrences, with `new` between them.
Substituted(str, old, new) == Join(new, Split(str, old))

RECURSIVE SubstitutedElem(_, _, _)
SubstitutedElem(node, old, new) ==
    [tag |-> node.tag,
     attrs |-> [i \in DOMAIN node.attrs |->
                   Attr(node.attrs[i].name,
                        Substituted(node.attrs[i].value, old, new))],
     items |-> [i \in DOMAIN node.items |->
                   SubstitutedElem(node.items[i], old, new)],
     text |-> Substituted(node.text, old, new)]

\* The text with the placeholder replaced by the type in its character data,
\* its attribute values and its comments.
SubstitutedText(text, type) ==
    IF text.kind = "xml"
    THEN XmlText(text.decl,
                 SubstitutedElem(text.root, <<"{","i","n","s","t","r","u","c","t","i","o","n",".","t","y","p","e","}">>, type))
    ELSE RawText(Substituted(text.chars, <<"{","i","n","s","t","r","u","c","t","i","o","n",".","t","y","p","e","}">>, type))

\* C7: without an entry for the type and with one named "default",
\* instruction_to_svg gives what recoloring gives on the default text with
\* every "{instruction.type}" replaced by the type: replaced first, on the whole
\* text, recolored second; the stored default stays the file that was loaded.
\* With an entry for the type nothing is replaced.
C7_DefaultIsSubstitutedThenRecolored ==
    /\ (op = "instruction_to_svg" /\ instr.type \notin DOMAIN store
            /\ <<"d","e","f","a","u","l","t">> \in DOMAIN store)
         => /\ result = _set_fills_in_color_layer(
                            SubstitutedText(store[<<"d","e","f","a","u","l","t">>], instr.type),
                            instr.color)
            /\ store[<<"d","e","f","a","u","l","t">>] = loads[LastLoad(<<"d","e","f","a","u","l","t">>)].content
    /\ (op = "instruction_to_svg" /\ instr.type \in DOMAIN store)
         => result = _set_fills_in_color_layer(store[instr.type], instr.color)

\* C7's case: the default file with the placeholder in a comment, an attribute
\* and character data, rendered for an unregistered type with the placeholder
\* itself as the color.
C7_Witness ==
    /\ op = "instruction_to_svg"
    /\ instr = Instruction(<<"p","u","r","l">>, <<"{","i","n","s","t","r","u","c","t","i","o","n",".","t","y","p","e","}">>)
    /\ <<"d","e","f","a","u","l","t">> \in DOMAIN store
    /\ store[<<"d","e","f","a","u","l","t">>] = KnitSvg
    /\ result.kind = "text"
    /\ result.text # store[<<"d","e","f","a","u","l","t">>]

Readers == Renders \cup {"has_svg_for_instruction"}

\* C10: instruction_to_svg, default_instruction_to_svg and
\* has_svg_for_instruction leave the store as it is, so only a load changes it;
\* the same rendering twice in a row returns the same; has_svg_for_instruction
\* is true exactly for the types of the store, which are the types
\* instruction_to_svg then renders from their own template.
C10_ReadersLeaveTheStore ==
    /\ [][op' \in Readers => store' = store]_vars
    /\ [][store' # store => op' = "load"]_vars
    /\ [][(op \in Renders /\ op' = op /\ instr' = instr) => result' = result]_vars
    /\ [](op = "has_svg_for_instruction"
             => result.kind = "bool" /\ (result.flag <=> instr.type \in DOMAIN store))
    /\ [][(op = "has_svg_for_instruction" /\ op' = "instruction_to_svg"
              /\ instr' = instr)
             => (result.flag <=> branch' = "dedicated")]_vars

\* C10's case: a rendering from the default file that replaced the placeholder
\* and recolored, with the default file still as it was loaded.
C10_Witness ==
    /\ op = "instruction_to_svg"
    /\ branch = "default"
    /\ result.kind = "text"
    /\ result.parsed
    /\ <<"d","e","f","a","u","l","t">> \in DOMAIN store
    /\ store[<<"d","e","f","a","u","l","t">>] = loads[LastLoad(<<"d","e","f","a","u","l","t">>)].content
    /\ result.text # store[<<"d","e","f","a","u","l","t">>]

(* ---------------------- the recoloring's claims ----------------------- *)

\* A value taken as a list: the list's elements, or the one value.
AsList(val) == IF val.kind = "list" THEN val.elems ELSE <<val>>

\* The style of an element, if it has one.
OwnStyle(val) ==
    IF val.kind = "dict" /\ HasKey(val, <<"@","s","t","y","l","e">>)
    THEN <<Get(val, <<"@","s","t","y","l","e">>).str>>
    ELSE << >>

\* The child elements of a parsed element, in the order of its keys.
ChildrenOf(val) ==
    IF val.kind # "dict" THEN << >>
    ELSE Flatten([i \in DOMAIN val.entries |->
                     IF val.entries[i].key[1] \in {"@", "#"} THEN << >>
                     ELSE AsList(val.entries[i].val)])

\* The styles of the direct children of a parsed group.
DirectStyles(group) ==
    Flatten([i \in DOMAIN ChildrenOf(group) |-> OwnStyle(ChildrenOf(group)[i])])

\* The styles of a parsed element and of everything below it.
RECURSIVE DeepStyles(_)
DeepStyles(val) ==
    OwnStyle(val)
        \o Flatten([i \in DOMAIN ChildrenOf(val) |-> DeepStyles(ChildrenOf(val)[i])])

\* The styles of everything below a parsed group, at any depth.
DescendantStyles(group) ==
    Flatten([i \in DOMAIN ChildrenOf(group) |-> DeepStyles(ChildrenOf(group)[i])])

\* The groups directly under the root of a text, in document order.
GroupsOf(text) ==
    LET IsGroup(it) == it.tag = <<"g">>
    IN  SelectSeq(text.root.items, IsGroup)

\* A group of the text labeled "color" and of group mode "layer".
Labeled(group) ==
    /\ \E i \in DOMAIN group.attrs :
          group.attrs[i] = Attr(<<"i","n","k","s","c","a","p","e",":","l","a","b","e","l">>, <<"c","o","l","o","r">>)
    /\ \E i \in DOMAIN group.attrs :
          group.attrs[i] = Attr(<<"i","n","k","s","c","a","p","e",":","g","r","o","u","p","m","o","d","e">>, <<"l","a","y","e","r">>)

\* A style with the color as its fill: part by part, the parts at ";".
Recolored(style, c) ==
    LET segs == Split(style, <<";">>)
    IN  Join(<<";">>,
             [i \in DOMAIN segs |->
                 IF Len(segs[i]) >= 5 /\ SubSeq(segs[i], 1, 5) = <<"f","i","l","l",":">>
                 THEN <<"f","i","l","l",":">> \o c
                 ELSE segs[i]])

RecoloredAll(styles, c) == [i \in DOMAIN styles |-> Recolored(styles[i], c)]

\* The direct children's styles of the color layers, group by group.
LayerStyles(text) ==
    LET gs == SelectSeq(GroupsOf(text), Labeled)
    IN  Flatten([i \in DOMAIN gs |-> DirectStyles(ParseElem(gs[i]))])

\* A recoloring with a color that returned.
Recolor_Returned ==
    /\ op = "set_fills"
    /\ color_arg # None
    /\ result.kind = "text"

\* C3: after recoloring with a color, the style of every direct child of a
\* color layer is its parts at ";" joined with ";" in their order, each part
\* that starts with "fill:" replaced by "fill:" + color and every other part
\* ("fill-opacity:1", "fill-rule:nonzero", "stroke:...") as it was; a style
\* without such a part is as it was.
C3_FillPartsReplaced ==
    Recolor_Returned
        => LayerStyles(result.text)
               = RecoloredAll(LayerStyles(svg_string), color_arg)

\* C3's case: a style with two fills after another part, next to a style
\* without fill, recolored.
C3_Witness ==
    /\ Recolor_Returned
    /\ color_arg = Green
    /\ \E i \in DOMAIN LayerStyles(svg_string) :
         /\ LayerStyles(svg_string)[i] = <<"f","i","l","l","-","r","u","l","e",":","n","o","n","z","e","r","o",";","f","i","l","l",":","#","f","0","0",";","f","i","l","l",":","#","0","0","f">>
         /\ LayerStyles(result.text)[i] = <<"f","i","l","l","-","r","u","l","e",":","n","o","n","z","e","r","o",";","f","i","l","l",":","#","0","f","0",";","f","i","l","l",":","#","0","f","0">>
    /\ \E i \in DOMAIN LayerStyles(svg_string) :
         /\ LayerStyles(svg_string)[i] = <<"s","t","r","o","k","e",":","#","0","0","0">>
         /\ LayerStyles(result.text)[i] = <<"s","t","r","o","k","e",":","#","0","0","0">>
    /\ \E i \in DOMAIN LayerStyles(svg_string) :
         /\ LayerStyles(svg_string)[i] = <<"f","i","l","l",":","#","f","0","0",";","f","i","l","l","-","o","p","a","c","i","t","y",":","1">>
         /\ LayerStyles(result.text)[i] = <<"f","i","l","l",":","#","0","f","0",";","f","i","l","l","-","o","p","a","c","i","t","y",":","1">>

\* All styles of a text, in document order.
AllStyles(text) == DeepStyles(ParseElem(text.root))

\* C4 as claimed: for every color that is not None, recoloring the result of a
\* recoloring with the same color gives the styles the first recoloring gave.
C4_Idempotent_AnyColor ==
    (op = "set_fills_again" /\ color_arg # None)
        => /\ result.kind = "text"
           /\ AllStyles(result.text) = AllStyles(first.text)

\* C4 amended: so it is for every color that is not None and holds no ";".
C4_Idempotent_NoSemicolon ==
    (op = "set_fills_again" /\ color_arg # None
         /\ \A i \in DOMAIN color_arg : color_arg[i] # ";")
        => /\ result.kind = "text"
           /\ AllStyles(result.text) = AllStyles(first.text)

\* C4's case: a first recoloring that changed a fill, and a second one.
C4_Witness ==
    /\ op = "set_fills_again"
    /\ color_arg = Green
    /\ AllStyles(first.text) # AllStyles(svg_string)
    /\ AllStyles(result.text) = AllStyles(first.text)

\* C5: for every document, whatever the number of groups under its root, and
\* every color, the fills are rewritten in every group labeled "color" of mode
\* "layer", each on its own, and no style changes in any other group; one
\* group is as a list of one group.
C5_EveryColorLayerRewritten ==
    (op = "set_fills" /\ color_arg # None
         /\ svg_string.kind = "xml" /\ svg_string.root.tag = <<"s","v","g">>)
        => /\ result.kind = "text"
           /\ Len(GroupsOf(result.text)) = Len(GroupsOf(svg_string))
           /\ \A i \in DOMAIN GroupsOf(svg_string) :
                LET before == ParseElem(GroupsOf(svg_string)[i])
                    after == ParseElem(GroupsOf(result.text)[i])
                IN  IF Labeled(GroupsOf(svg_string)[i])
                    THEN DirectStyles(after)
                             = RecoloredAll(DirectStyles(before), color_arg)
                    ELSE DeepStyles(after) = DeepStyles(before)

\* C9: after recoloring with a color, the fill of every element below a color
\* layer, at any depth and not only directly under it, is replaced by the color.
C9_DescendantFillsReplaced ==
    Recolor_Returned
        => \A i \in DOMAIN GroupsOf(svg_string) :
             Labeled(GroupsOf(svg_string)[i])
                 => DescendantStyles(ParseElem(GroupsOf(result.text)[i]))
                        = RecoloredAll(
                              DescendantStyles(ParseElem(GroupsOf(svg_string)[i])),
                              color_arg)

====
